---- MODULE Spec2Model ----
(***************************************************************************)
(* Model of wgpu_glyph's instance pipeline (src/src/pipeline.rs):          *)
(*   - Pipeline<Depth>: build, upload, draw, update_cache,                 *)
(*     increase_cache_size, as a state machine (specification Spec);       *)
(*   - Instance::from_vertex, the bounds-clipping encoder, as a pure       *)
(*     operator applied to enumerated glyph vertices (specification        *)
(*     SpecFV).                                                            *)
(***************************************************************************)
EXTENDS Integers, Sequences, FiniteSets, TLC

VARIABLES
    depth,               \* Pipeline<Depth>: FALSE for (), TRUE for wgpu::DepthStencilState
    raw,                 \* the render pipeline: [depth_stencil |-> has a depth-stencil state]
    transform,           \* contents of the transform uniform buffer (16 floats)
    cache,               \* the atlas: [view, width, height, updates]
    uniforms,            \* the bind group: [transform, sampler, view]
    instances,           \* the instance buffer: [id, size (bytes), written (bytes)]
    current_instances,
    supported_instances,
    current_transform,
    staged,              \* what the operations have recorded so far: counts of
                         \* buffer creations, buffer writes, render passes, draws
    pass,                \* the render pass recorded by the latest draw, or NoPass
    failed,              \* a staging write larger than its destination buffer
    log,                 \* history: one record per operation called since build
    fv                   \* Instance::from_vertex: [pc, v, clamps, out]

vars == <<depth, raw, transform, cache, uniforms, instances, current_instances,
          supported_instances, current_transform, staged, pass, failed, log, fv>>

pipeline_vars == <<depth, raw, transform, cache, uniforms, instances,
                   current_instances, supported_instances, current_transform,
                   staged, pass, failed, log>>

(***************************************************************************)
(* Bounds of the model.                                                    *)
(***************************************************************************)
MaxOps == 3          \* operations called on one Pipeline
MaxGrow == 1         \* extra batch lengths above the 60,000 scenario
MaxOver == 1         \* extra pixel columns beyond the clip rectangle
TexDen == 2          \* texture coordinates are k / TexDen, k \in 0..TexDen

(***************************************************************************)
(* f32 values (IEEE 754 binary32, round to nearest, ties to even).  A      *)
(* value is <<kind, s, m, e>>:                                             *)
(*   "num"   s * m * 2^e with sign s \in {1, -1} and a 24-bit mantissa     *)
(*           2^23 <= m < 2^24                                              *)
(*   "zero"  +0.0 (s = 1) or -0.0 (s = -1)                                 *)
(*   "inf"   s * infinity                                                  *)
(*   "nan"   NaN                                                           *)
(* The exponent is unbounded: overflow to infinity and subnormals are not  *)
(* modelled (glyph coordinates are nowhere near either).  Every            *)
(* intermediate integer stays below 2^31.                                  *)
(***************************************************************************)
\* number of bits of M, 0 <= M < 2^31
BitLen(M) ==
    CHOOSE k \in 0..31 : (k = 31 \/ 2^k > M) /\ (k = 0 \/ 2^(k - 1) <= M)

Num(s, m, e) == <<"num", s, m, e>>

Zero(s) == <<"zero", s, 0, 0>>

Inf(s) == <<"inf", s, 0, 0>>

NaN == <<"nan", 1, 0, 0>>

NegZero == Zero(-1)

IsNaN(a) == a[1] = "nan"

IsInf(a) == a[1] = "inf"

IsZero(a) == a[1] = "zero"

\* s * (M + r) * 2^e rounded to f32, where 0 <= r < 1 and sticky says r > 0;
\* a caller passing sticky = TRUE passes M >= 2^25
Round(s, M, e, sticky) ==
    IF M = 0 THEN Zero(1)
    ELSE LET k == BitLen(M) - 24
         IN  IF k <= 0 THEN Num(s, M * 2^(-k), e + k)
             ELSE LET q == M \div 2^k
                      r == M % 2^k
                      half == 2^(k - 1)
                      up == r > half \/ (r = half /\ (sticky \/ q % 2 = 1))
                      q2 == IF up THEN q + 1 ELSE q
                  IN  IF q2 = 16777216 THEN Num(s, 8388608, e + k + 1)
                      ELSE Num(s, q2, e + k)

\* an integer literal or an integer-valued coordinate
F(n) == IF n = 0 THEN Zero(1) ELSE Round(IF n < 0 THEN -1 ELSE 1,
                                         IF n < 0 THEN -n ELSE n, 0, FALSE)

\* magnitude order of two "num" values
MagGt(a, b) == a[4] > b[4] \/ (a[4] = b[4] /\ a[3] > b[3])

\* f32 == : NaN equals nothing, -0.0 equals 0.0
FEq(a, b) ==
    IF IsNaN(a) \/ IsNaN(b) THEN FALSE
    ELSE IF IsZero(a) \/ IsZero(b) THEN IsZero(a) /\ IsZero(b)
    ELSE a = b

\* f32 > : false when either side is NaN
FGt(a, b) ==
    IF IsNaN(a) \/ IsNaN(b) THEN FALSE
    ELSE IF IsZero(a) THEN (~IsZero(b) /\ b[2] = -1)
    ELSE IF IsZero(b) THEN a[2] = 1
    ELSE IF a[2] # b[2] THEN a[2] = 1
    ELSE IF IsInf(a) \/ IsInf(b)
         THEN (IF a[2] = 1 THEN IsInf(a) /\ ~IsInf(b) ELSE IsInf(b) /\ ~IsInf(a))
    ELSE IF a[2] = 1 THEN MagGt(a, b) ELSE MagGt(b, a)

FLt(a, b) == FGt(b, a)

FLe(a, b) == FLt(a, b) \/ FEq(a, b)

FNeg(a) == IF IsNaN(a) THEN NaN ELSE <<a[1], -a[2], a[3], a[4]>>

FAbs(a) == IF IsNaN(a) THEN NaN ELSE <<a[1], 1, a[3], a[4]>>

\* the sum of two "num" values, a the one of larger (or equal) exponent
AddNum(a, b) ==
    LET d == a[4] - b[4]
        A == a[3] * 64
        wide == b[3] * 64
        B == IF d > 30 THEN 0 ELSE wide \div 2^d
        sticky == IF d > 30 THEN TRUE ELSE wide % 2^d # 0
    IN  IF a[2] = b[2] THEN Round(a[2], A + B, a[4] - 6, sticky)
        ELSE IF A = B /\ ~sticky THEN Zero(1)
        ELSE IF A > B
             THEN Round(a[2], A - B - (IF sticky THEN 1 ELSE 0), a[4] - 6, sticky)
        ELSE Round(b[2], B - A, a[4] - 6, FALSE)

FAdd(a, b) ==
    IF IsNaN(a) \/ IsNaN(b) THEN NaN
    ELSE IF IsInf(a) /\ IsInf(b) THEN (IF a[2] = b[2] THEN a ELSE NaN)
    ELSE IF IsInf(a) THEN a
    ELSE IF IsInf(b) THEN b
    ELSE IF IsZero(a) /\ IsZero(b) THEN (IF a[2] = b[2] THEN a ELSE Zero(1))
    ELSE IF IsZero(a) THEN b
    ELSE IF IsZero(b) THEN a
    ELSE IF a[4] >= b[4] THEN AddNum(a, b) ELSE AddNum(b, a)

FSub(a, b) == FAdd(a, FNeg(b))

\* the product of two 24-bit mantissas as <<high 24 bits.., low 24 bits>>
MulWide(x, y) ==
    LET x1 == x \div 4096
        x0 == x % 4096
        y1 == y \div 4096
        y0 == y % 4096
        cross == x1 * y0 + x0 * y1
        low == x0 * y0 + (cross % 4096) * 4096
    IN  <<x1 * y1 + cross \div 4096 + low \div 16777216, low % 16777216>>

FMul(a, b) ==
    IF IsNaN(a) \/ IsNaN(b) THEN NaN
    ELSE IF IsInf(a) \/ IsInf(b)
         THEN (IF IsZero(a) \/ IsZero(b) THEN NaN ELSE Inf(a[2] * b[2]))
    ELSE IF IsZero(a) \/ IsZero(b) THEN Zero(a[2] * b[2])
    ELSE LET p == MulWide(a[3], b[3])
         IN  Round(a[2] * b[2], p[1] * 64 + p[2] \div 262144,
                   a[4] + b[4] + 18, p[2] % 262144 # 0)

\* <<floor(x * 2^26 / d), remainder # 0>> for 24-bit x and d, by long
\* division in digits of 6, 6, 6, 6 and 2 bits
DivWide(x, d) ==
    LET q0 == x \div d
        r0 == x % d
        q1 == (r0 * 64) \div d
        r1 == (r0 * 64) % d
        q2 == (r1 * 64) \div d
        r2 == (r1 * 64) % d
        q3 == (r2 * 64) \div d
        r3 == (r2 * 64) % d
        q4 == (r3 * 64) \div d
        r4 == (r3 * 64) % d
        q5 == (r4 * 4) \div d
        r5 == (r4 * 4) % d
    IN  <<((((q0 * 64 + q1) * 64 + q2) * 64 + q3) * 64 + q4) * 4 + q5, r5 # 0>>

\* f32 / : x / 0 is an infinity (NaN for 0 / 0), never a trap
FDiv(a, b) ==
    IF IsNaN(a) \/ IsNaN(b) THEN NaN
    ELSE IF IsInf(a) THEN (IF IsInf(b) THEN NaN ELSE Inf(a[2] * b[2]))
    ELSE IF IsInf(b) THEN Zero(a[2] * b[2])
    ELSE IF IsZero(b) THEN (IF IsZero(a) THEN NaN ELSE Inf(a[2] * b[2]))
    ELSE IF IsZero(a) THEN Zero(a[2] * b[2])
    ELSE LET qr == DivWide(a[3], b[3])
         IN  Round(a[2] * b[2], qr[1], a[4] - b[4] - 26, qr[2])

(***************************************************************************)
(* Transforms: [f32; 16].                                                  *)
(***************************************************************************)
Diag(a) == [i \in 1..16 |-> IF i \in {1, 6, 11, 16} THEN a ELSE F(0)]

IDENTITY_MATRIX == Diag(F(1))

ZeroTransform == [i \in 1..16 |-> F(0)]

\* the transforms a caller passes to draw: zeros, zeros with a -0.0, the
\* identity, a scaling, and a matrix holding a NaN
Transforms ==
    { ZeroTransform,
      [ZeroTransform EXCEPT ![1] = NegZero],
      IDENTITY_MATRIX,
      Diag(F(2)),
      [IDENTITY_MATRIX EXCEPT ![4] = NaN] }

\* [f32; 16] != : some element pair is not ==
ArrayNe(a, b) == \E i \in 1..16 : ~FEq(a[i], b[i])

(***************************************************************************)
(* Pipeline.                                                               *)
(***************************************************************************)
INITIAL_AMOUNT == 50000

\* mem::size_of::<Instance>(): 3 + 2 + 2 + 2 + 4 f32 fields, repr(C)
INSTANCE_SIZE == 52

\* usize as u32
AsU32(n) == (n % 65536) + 65536 * ((n \div 65536) % 65536)

\* lengths of the instance slices passed to upload
UploadLens ==
    {0, 1, INITIAL_AMOUNT, INITIAL_AMOUNT + 1}
        \cup {60000 + k : k \in 0..MaxGrow}

Regions == {"None", "Some"}

\* atlas sizes passed to increase_cache_size
CacheDims == {<<512, 512>>, <<1024, 512>>}

NoPass == [begun |-> FALSE]

\* Cache::new(device, width, height): a new texture and view
CacheNew(id, width, height) ==
    [view |-> id, width |-> width, height |-> height, updates |-> 0]

\* Cache::update: writes into the texture, the view stays the same
CacheUpdate(c) == [c EXCEPT !.updates = @ + 1]

create_uniforms(transform_buffer, sampler, view) ==
    [transform |-> transform_buffer, sampler |-> sampler, view |-> view]

\* one operation of the history: its name, the batch length (upload), the
\* transform (draw), whether it created an instance buffer (upload) and
\* whether it wrote the uniform buffer (draw)
LogEntry(op, n, t, reallocated, uploaded) ==
    [op |-> op, n |-> n, transform |-> t, reallocated |-> reallocated,
     uploaded |-> uploaded]

\* build(.., depth_stencil, cache_width, cache_height)
build(depth_stencil, cache_width, cache_height) ==
    /\ raw = [depth_stencil |-> depth_stencil]
    /\ transform = IDENTITY_MATRIX
    /\ cache = CacheNew(0, cache_width, cache_height)
    /\ uniforms = create_uniforms("transform", "sampler", 0)
    /\ instances = [id |-> 0, size |-> INSTANCE_SIZE * INITIAL_AMOUNT, written |-> 0]
    /\ current_instances = 0
    /\ supported_instances = INITIAL_AMOUNT
    /\ current_transform = ZeroTransform
    /\ staged = [buffers |-> 0, instance_writes |-> 0, transform_writes |-> 0,
                 passes |-> 0, draws |-> 0]
    /\ pass = NoPass
    /\ failed = FALSE
    /\ log = <<>>


\* from_vertex has not been called
fv_idle == [pc |-> "idle", v |-> <<>>, clamps |-> <<>>, out |-> <<>>]

\* Pipeline<()>::new
NewUnit == depth = FALSE /\ build(FALSE, 256, 256)

\* Pipeline<wgpu::DepthStencilState>::new
NewDepth == depth = TRUE /\ build(TRUE, 256, 256)

Init ==
    /\ NewUnit \/ NewDepth
    /\ fv = fv_idle

\* a buffer always reallocated to fit the batch
NeedsRealloc_fit(n) == n # supported_instances

\* upload: does the batch need a larger buffer
NeedsRealloc(n) == n > supported_instances

\* an empty upload that returns without resetting the count
EmptyCount_stale == current_instances

\* upload: current_instances on the empty path
EmptyCount == 0

\* a reallocation that forgets to record the new capacity
GrownCapacity_stale(n) == supported_instances

\* a reallocation that over-allocates by half
GrownCapacity_padded(n) == n + n \div 2

\* upload: supported_instances after a reallocation for n instances
GrownCapacity(n) == n

\* a reallocation that creates a buffer of the old size
GrownSize_short(n) == INSTANCE_SIZE * supported_instances

\* upload: byte size of the buffer created for n instances
GrownSize(n) == INSTANCE_SIZE * n

\* upload: byte length of the staged write
InstancesBytes(n) == INSTANCE_SIZE * n

upload(n) ==
    /\ Len(log) < MaxOps
    /\ log' = Append(log, LogEntry("upload", n, ZeroTransform,
                                    n # 0 /\ NeedsRealloc(n), FALSE))
    /\ IF n = 0
       THEN /\ current_instances' = EmptyCount
            /\ UNCHANGED <<instances, supported_instances, staged, failed>>
       ELSE LET grow == NeedsRealloc(n)
                buffer == IF grow
                          THEN [id |-> instances.id + 1,
                                size |-> GrownSize(n),
                                written |-> 0]
                          ELSE instances
                bytes == InstancesBytes(n)
            IN  /\ supported_instances' =
                       IF grow THEN GrownCapacity(n) ELSE supported_instances
                /\ instances' =
                       IF bytes # 0 /\ bytes <= buffer.size
                       THEN [buffer EXCEPT !.written = bytes]
                       ELSE buffer
                /\ failed' = (failed \/ (bytes # 0 /\ bytes > buffer.size))
                /\ staged' = [staged EXCEPT
                       !.buffers = @ + (IF grow THEN 1 ELSE 0),
                       !.instance_writes = @ + (IF bytes # 0 THEN 1 ELSE 0)]
                /\ current_instances' = n
    /\ UNCHANGED <<depth, raw, transform, cache, uniforms, current_transform,
                   pass, fv>>

\* a draw over the whole buffer instead of the uploaded batch
InstanceRange_capacity == <<0, AsU32(supported_instances)>>

\* draw: the instance range of the draw call
InstanceRange == <<0, AsU32(current_instances)>>

\* draw: is the uniform buffer rewritten for transform t
TransformDirty(t) == ArrayNe(t, current_transform)

draw(depth_stencil_attachment, t, region) ==
    /\ Len(log) < MaxOps
    /\ LET dirty == TransformDirty(t)
       IN  /\ transform' = IF dirty THEN t ELSE transform
           /\ current_transform' = IF dirty THEN t ELSE current_transform
           /\ staged' = [staged EXCEPT
                  !.transform_writes = @ + (IF dirty THEN 1 ELSE 0),
                  !.passes = @ + 1,
                  !.draws = @ + 1]
           /\ log' = Append(log, LogEntry("draw", 0, t, FALSE, dirty))
    /\ pass' = [begun |-> TRUE,
                depth_stencil_attachment |-> depth_stencil_attachment,
                pipeline |-> raw,
                bind_group |-> uniforms,
                vertex_buffer |-> instances.id,
                scissor |-> region,
                vertices |-> <<0, 4>>,
                instances |-> InstanceRange]
    /\ UNCHANGED <<depth, raw, cache, uniforms, instances, current_instances,
                   supported_instances, failed, fv>>

\* a depthless draw that passes an attachment
UnitAttachment_some == TRUE

\* Pipeline<()>::draw: the attachment it hands to draw
UnitAttachment == FALSE

\* Pipeline<wgpu::DepthStencilState>::draw: the attachment it hands to draw
DepthAttachment == TRUE

DrawUnit ==
    /\ depth = FALSE
    /\ \E t \in Transforms, region \in Regions : draw(UnitAttachment, t, region)

DrawDepth ==
    /\ depth = TRUE
    /\ \E t \in Transforms, region \in Regions : draw(DepthAttachment, t, region)

Upload == \E n \in UploadLens : upload(n)

update_cache ==
    /\ Len(log) < MaxOps
    /\ cache' = CacheUpdate(cache)
    /\ log' = Append(log, LogEntry("update_cache", 0, ZeroTransform, FALSE, FALSE))
    /\ UNCHANGED <<depth, raw, transform, uniforms, instances, current_instances,
                   supported_instances, current_transform, staged, pass, failed, fv>>

\* a resize that rebuilds the bind group over the replaced atlas
RebindView_stale == cache.view

\* increase_cache_size: the view handed to create_uniforms, read after
\* self.cache has been assigned
RebindView == cache'.view

increase_cache_size(width, height) ==
    /\ Len(log) < MaxOps
    /\ cache' = CacheNew(cache.view + 1, width, height)
    /\ uniforms' = create_uniforms("transform", "sampler", RebindView)
    /\ log' = Append(log, LogEntry("increase_cache_size", 0, ZeroTransform,
                                    FALSE, FALSE))
    /\ UNCHANGED <<depth, raw, transform, instances, current_instances,
                   supported_instances, current_transform, staged, pass, failed, fv>>

IncreaseCacheSize == \E d \in CacheDims : increase_cache_size(d[1], d[2])

Next ==
    \/ Upload
    \/ DrawUnit
    \/ DrawDepth
    \/ update_cache
    \/ IncreaseCacheSize

Spec == Init /\ [][Next]_vars

(***************************************************************************)
(* Instance::from_vertex.                                                  *)
(***************************************************************************)
Point(x, y) == [x |-> x, y |-> y]

Rect(min_x, min_y, max_x, max_y) ==
    [min |-> Point(min_x, min_y), max |-> Point(max_x, max_y)]

\* ab_glyph Rect::width and Rect::height
Width(r) == FSub(r.max.x, r.min.x)

Height(r) == FSub(r.max.y, r.min.y)

\* the locals on entry: gl_bounds, gl_rect and the mutable tex_coords
Start(v) ==
    [gl_bounds |-> v.bounds,
     gl_rect |-> Rect(v.pixel_coords.min.x, v.pixel_coords.min.y,
                      v.pixel_coords.max.x, v.pixel_coords.max.y),
     tex_coords |-> v.tex_coords]

\* a max-x clamp that forgets the anchor tex_coords.min.x
ClampMaxX_unanchored(s) ==
    IF FGt(s.gl_rect.max.x, s.gl_bounds.max.x)
    THEN LET old_width == Width(s.gl_rect)
             gl_rect == [s.gl_rect EXCEPT !.max.x = s.gl_bounds.max.x]
         IN  [s EXCEPT
                 !.gl_rect = gl_rect,
                 !.tex_coords.max.x =
                     FDiv(FMul(Width(s.tex_coords), Width(gl_rect)), old_width)]
    ELSE s

ClampMaxX(s) ==
    IF FGt(s.gl_rect.max.x, s.gl_bounds.max.x)
    THEN LET old_width == Width(s.gl_rect)
             gl_rect == [s.gl_rect EXCEPT !.max.x = s.gl_bounds.max.x]
         IN  [s EXCEPT
                 !.gl_rect = gl_rect,
                 !.tex_coords.max.x =
                     FAdd(s.tex_coords.min.x,
                          FDiv(FMul(Width(s.tex_coords), Width(gl_rect)),
                               old_width))]
    ELSE s

ClampMinX(s) ==
    IF FLt(s.gl_rect.min.x, s.gl_bounds.min.x)
    THEN LET old_width == Width(s.gl_rect)
             gl_rect == [s.gl_rect EXCEPT !.min.x = s.gl_bounds.min.x]
         IN  [s EXCEPT
                 !.gl_rect = gl_rect,
                 !.tex_coords.min.x =
                     FSub(s.tex_coords.max.x,
                          FDiv(FMul(Width(s.tex_coords), Width(gl_rect)),
                               old_width))]
    ELSE s

ClampMaxY(s) ==
    IF FGt(s.gl_rect.max.y, s.gl_bounds.max.y)
    THEN LET old_height == Height(s.gl_rect)
             gl_rect == [s.gl_rect EXCEPT !.max.y = s.gl_bounds.max.y]
         IN  [s EXCEPT
                 !.gl_rect = gl_rect,
                 !.tex_coords.max.y =
                     FAdd(s.tex_coords.min.y,
                          FDiv(FMul(Height(s.tex_coords), Height(gl_rect)),
                               old_height))]
    ELSE s

ClampMinY(s) ==
    IF FLt(s.gl_rect.min.y, s.gl_bounds.min.y)
    THEN LET old_height == Height(s.gl_rect)
             gl_rect == [s.gl_rect EXCEPT !.min.y = s.gl_bounds.min.y]
         IN  [s EXCEPT
                 !.gl_rect = gl_rect,
                 !.tex_coords.min.y =
                     FSub(s.tex_coords.max.y,
                          FDiv(FMul(Height(s.tex_coords), Height(gl_rect)),
                               old_height))]
    ELSE s

\* an Instance without the vertical flip
Encode_unflipped(s, extra) ==
    [left_top |-> <<s.gl_rect.min.x, s.gl_rect.min.y, extra.z>>,
     right_bottom |-> <<s.gl_rect.max.x, s.gl_rect.max.y>>,
     tex_left_top |-> <<s.tex_coords.min.x, s.tex_coords.min.y>>,
     tex_right_bottom |-> <<s.tex_coords.max.x, s.tex_coords.max.y>>,
     color |-> extra.color]

\* the Instance literal
Encode(s, extra) ==
    [left_top |-> <<s.gl_rect.min.x, s.gl_rect.max.y, extra.z>>,
     right_bottom |-> <<s.gl_rect.max.x, s.gl_rect.min.y>>,
     tex_left_top |-> <<s.tex_coords.min.x, s.tex_coords.max.y>>,
     tex_right_bottom |-> <<s.tex_coords.max.x, s.tex_coords.min.y>>,
     color |-> extra.color]

\* what the four clamps did, in program order, given the locals on entry
\* and after each clamp: whether the clamp was taken, the extent it read as
\* old_width / old_height (its divisor) and the extent of gl_rect after it
Clamps(steps) ==
    <<[taken |-> FGt(steps[1].gl_rect.max.x, steps[1].gl_bounds.max.x),
       divisor |-> Width(steps[1].gl_rect),
       extent |-> Width(steps[2].gl_rect)],
      [taken |-> FLt(steps[2].gl_rect.min.x, steps[2].gl_bounds.min.x),
       divisor |-> Width(steps[2].gl_rect),
       extent |-> Width(steps[3].gl_rect)],
      [taken |-> FGt(steps[3].gl_rect.max.y, steps[3].gl_bounds.max.y),
       divisor |-> Height(steps[3].gl_rect),
       extent |-> Height(steps[4].gl_rect)],
      [taken |-> FLt(steps[4].gl_rect.min.y, steps[4].gl_bounds.min.y),
       divisor |-> Height(steps[4].gl_rect),
       extent |-> Height(steps[5].gl_rect)]>>

\* the whole function: the four clamps in program order, then the Instance
from_vertex(v) ==
    \E s0 \in {Start(v)} :
    \E s1 \in {ClampMaxX(s0)} :
    \E s2 \in {ClampMinX(s1)} :
    \E s3 \in {ClampMaxY(s2)} :
    \E s4 \in {ClampMinY(s3)} :
        fv' = [pc |-> "done", v |-> v,
               clamps |-> Clamps(<<s0, s1, s2, s3, s4>>),
               out |-> Encode(s4, v.extra)]

\* glyph vertices handed to from_vertex
PixelXs == {F(-10), F(0), F(60), F(100)} \cup {F(60 + 10 * k) : k \in 1..MaxOver}

PixelYs == {F(-10), F(0), F(50)} \cup {F(50 + 10 * k) : k \in 1..MaxOver}

TexVals == {FDiv(F(k), F(TexDen)) : k \in 0..TexDen}

PixelRects ==
    {Rect(x0, y0, x1, y1) : x0 \in PixelXs, y0 \in PixelYs,
                            x1 \in PixelXs, y1 \in PixelYs}

BoundsRects == {Rect(F(0), F(0), F(60), F(50)), Rect(F(0), F(0), F(100), F(60))}

TexRects ==
    {Rect(u0, v0, u1, v1) : u0 \in TexVals, v0 \in TexVals,
                            u1 \in TexVals, v1 \in TexVals}

Extras ==
    {[z |-> F(0), color |-> <<F(1), F(1), F(1), F(1)>>],
     [z |-> FDiv(F(1), F(2)), color |-> <<F(1), F(0), F(0), FDiv(F(1), F(2))>>]}

\* pixel rectangles are ordered (possibly empty), atlas regions are not empty
GlyphVertices ==
    {[tex_coords |-> t, pixel_coords |-> p, bounds |-> b, extra |-> x] :
        t \in {r \in TexRects : FLt(r.min.x, r.max.x) /\ FLt(r.min.y, r.max.y)},
        p \in {r \in PixelRects : FLe(r.min.x, r.max.x) /\ FLe(r.min.y, r.max.y)},
        b \in BoundsRects,
        x \in Extras}

\* from_vertex is an associated function: no Pipeline is involved
NoPipeline ==
    /\ depth = FALSE
    /\ raw = "none"
    /\ transform = "none"
    /\ cache = "none"
    /\ uniforms = "none"
    /\ instances = "none"
    /\ current_instances = 0
    /\ supported_instances = 0
    /\ current_transform = "none"
    /\ staged = "none"
    /\ pass = NoPass
    /\ failed = FALSE
    /\ log = <<>>

InitFV ==
    /\ NoPipeline
    /\ \E v \in GlyphVertices :
           fv = [pc |-> "call", v |-> v, clamps |-> <<>>, out |-> <<>>]

FromVertex ==
    /\ fv.pc = "call"
    /\ from_vertex(fv.v)
    /\ UNCHANGED pipeline_vars

NextFV == FromVertex

SpecFV == InitFV /\ [][NextFV]_vars

(***************************************************************************)
(* Properties of Pipeline (specification Spec).                            *)
(***************************************************************************)
LastOp == log[Len(log)]

\* the step is a call of op
Called(op) == Len(log') = Len(log) + 1 /\ log'[Len(log')].op = op

Uploads == SelectSeq(log, LAMBDA e : e.op = "upload")

Draws == SelectSeq(log, LAMBDA e : e.op = "draw")

\* length of the most recent upload batch, 0 before the first upload
LastUploadLen == IF Uploads = <<>> THEN 0 ELSE Uploads[Len(Uploads)].n

\* C1: in every reachable state current_instances <= supported_instances.
C1_CurrentWithinSupported == current_instances <= supported_instances

\* a batch larger than the initial capacity has been uploaded and fills the buffer
C1_Witness ==
    /\ supported_instances > INITIAL_AMOUNT
    /\ current_instances = supported_instances

\* C2: no step of any operation makes supported_instances smaller.
C2_CapacityNeverShrinks ==
    [][supported_instances' >= supported_instances]_vars

\* after a growth, a smaller (or empty) batch has been uploaded
C2_Witness ==
    /\ Len(Uploads) >= 2
    /\ supported_instances > INITIAL_AMOUNT
    /\ LastOp.op = "upload"
    /\ LastOp.n < supported_instances

\* C3: an upload of N > supported_instances creates exactly one instance
\* buffer, of N records, and sets supported_instances to N; the next upload,
\* of M < N instances, creates no buffer and leaves supported_instances at N.
C3_GrowsToExactlyN ==
    [][Called("upload") =>
        LET n == log'[Len(log')].n
        IN  /\ n > supported_instances =>
                /\ staged'.buffers = staged.buffers + 1
                /\ supported_instances' = n
                /\ instances'.size = INSTANCE_SIZE * n
            /\ (Uploads # <<>> /\ Uploads[Len(Uploads)].reallocated
                    /\ n < Uploads[Len(Uploads)].n) =>
                /\ staged'.buffers = staged.buffers
                /\ instances'.id = instances.id
                /\ supported_instances = Uploads[Len(Uploads)].n
                /\ supported_instances' = supported_instances]_vars

\* 60,000 instances against the initial 50,000, then a smaller batch
C3_Witness ==
    /\ Len(Uploads) = 2
    /\ Uploads[1].n = 60000 /\ Uploads[1].reallocated
    /\ Uploads[2].n > 0 /\ Uploads[2].n < 60000
    /\ staged.buffers = 1
    /\ supported_instances = 60000

\* C4 (as claimed): on a freshly built Pipeline, for every transform T, the
\* first draw(T) writes the uniform buffer, a second draw(T) does not, and a
\* third draw with a transform other than T writes it again.
C4_OneUploadPerTransform ==
    /\ Len(Draws) >= 1 => Draws[1].uploaded
    /\ (Len(Draws) >= 2 /\ Draws[2].transform = Draws[1].transform) =>
           ~Draws[2].uploaded
    /\ (Len(Draws) >= 3 /\ Draws[2].transform = Draws[1].transform
            /\ Draws[3].transform # Draws[1].transform) =>
           Draws[3].uploaded

\* C5: upload of an empty slice sets the count to 0 without creating or
\* writing a buffer, and the draw that follows it draws the range 0..0,
\* again without creating or writing an instance buffer; neither fails.
C5_EmptyUploadThenDraw ==
    [][/\ (Called("upload") /\ log'[Len(log')].n = 0) =>
            /\ current_instances' = 0
            /\ staged' = staged
            /\ instances' = instances
            /\ ~failed'
       /\ (Len(log) > 0 /\ LastOp.op = "upload" /\ LastOp.n = 0
              /\ Called("draw")) =>
            /\ pass'.begun
            /\ pass'.instances = <<0, 0>>
            /\ staged'.draws = staged.draws + 1
            /\ staged'.buffers = staged.buffers
            /\ staged'.instance_writes = staged.instance_writes
            /\ instances' = instances
            /\ ~failed']_vars

\* a non-empty batch grew the buffer, then upload([]) and draw
C5_Witness ==
    /\ Len(log) >= 3
    /\ supported_instances > INITIAL_AMOUNT
    /\ log[Len(log) - 1].op = "upload" /\ log[Len(log) - 1].n = 0
    /\ LastOp.op = "draw"
    /\ pass.instances = <<0, 0>>

\* C6: current_instances is the length of the most recent upload batch (0
\* before the first), and every draw issues one draw call, over vertices
\* 0..4 and instances 0..current_instances.
C6_DrawsLastBatch ==
    /\ current_instances = LastUploadLen
    /\ staged.draws = Len(Draws)
    /\ (Len(log) > 0 /\ LastOp.op = "draw") =>
        /\ pass.begun
        /\ pass.vertices = <<0, 4>>
        /\ pass.instances = <<0, LastUploadLen>>

\* upload, then an atlas resize, then the draw in question
C6_Witness ==
    /\ Len(log) = 3
    /\ log[1].op = "upload" /\ log[1].n = 60000
    /\ log[2].op = "increase_cache_size"
    /\ log[3].op = "draw"
    /\ pass.instances = <<0, 60000>>

\* C10: every render pass has a depth-stencil attachment exactly when the
\* render pipeline was built with a depth-stencil state.
C10_AttachmentMatchesDepthMode ==
    pass.begun => (pass.depth_stencil_attachment <=> raw.depth_stencil)

\* a pipeline built with a depth-stencil state has drawn
C10_Witness ==
    /\ pass.begun
    /\ raw.depth_stencil
    /\ pass.depth_stencil_attachment

\* the bind group refers to the pipeline's transform buffer, sampler and
\* current atlas view
BindGroupCurrent ==
    uniforms = create_uniforms("transform", "sampler", cache.view)

\* C11: in every reachable state the bind group refers to the current atlas
\* view together with the same transform buffer and sampler; every draw
\* binds that group, so no draw after increase_cache_size binds the
\* replaced atlas; and increase_cache_size replaces the atlas view while
\* leaving the instance buffer, both instance counts and the cached
\* transform unchanged.
C11_BindGroupFollowsAtlas ==
    [][/\ BindGroupCurrent
       /\ BindGroupCurrent'
       /\ Called("draw") =>
              /\ pass'.bind_group = uniforms'
              /\ pass'.bind_group.view = cache'.view
       /\ Called("increase_cache_size") =>
              /\ cache'.view # cache.view
              /\ UNCHANGED <<instances, current_instances,
                             supported_instances, current_transform>>]_vars

\* a draw right after a resize has bound the new atlas
C11_Witness ==
    /\ Len(log) >= 2
    /\ log[Len(log) - 1].op = "increase_cache_size"
    /\ LastOp.op = "draw"
    /\ pass.begun
    /\ pass.bind_group.view = cache.view
    /\ cache.view > 0

\* two [f32; 16] hold the same values: bit for bit, or equal as f32
SameTransform(a, b) == \A i \in 1..16 : a[i] = b[i] \/ FEq(a[i], b[i])

\* C12: when a draw call issues its instanced draw, the transform uniform
\* buffer holds the transform passed to that call, the first draw after
\* construction included.
C12_UniformMatchesDraw ==
    (log # <<>> /\ LastOp.op = "draw") =>
        SameTransform(transform, LastOp.transform)

\* the instance buffer holds exactly supported_instances records and
\* nothing was written past its end
CapacityIsSupported ==
    /\ instances.size = INSTANCE_SIZE * supported_instances
    /\ instances.written <= instances.size
    /\ ~failed

\* C13: in every reachable state the capacity of the instance buffer, in
\* records, equals supported_instances; every upload writes at most that
\* many records into the buffer bound at that moment, right after a
\* reallocation included; and every draw's instance range
\* 0..current_instances lies within the buffer it binds.
C13_BufferCapacityIsSupported ==
    [][/\ CapacityIsSupported
       /\ CapacityIsSupported'
       /\ Called("upload") =>
              /\ InstancesBytes(log'[Len(log')].n) <= instances'.size
              /\ log'[Len(log')].n <= supported_instances'
       /\ Called("draw") =>
              /\ pass'.vertex_buffer = instances'.id
              /\ pass'.instances[1] = 0
              /\ pass'.instances[2] * INSTANCE_SIZE <= instances'.size]_vars

\* a batch above the initial capacity was written into a reallocated
\* buffer and then drawn in full
C13_Witness ==
    /\ Len(log) >= 2
    /\ log[Len(log) - 1].op = "upload"
    /\ log[Len(log) - 1].reallocated
    /\ LastOp.op = "draw"
    /\ pass.vertex_buffer = instances.id
    /\ instances.id > 0
    /\ pass.instances[2] = supported_instances
    /\ instances.written = instances.size

(***************************************************************************)
(* Properties of Instance::from_vertex (specification SpecFV).             *)
(***************************************************************************)
ExceedsMaxX(v) == FGt(v.pixel_coords.max.x, v.bounds.max.x)

ExceedsMinX(v) == FLt(v.pixel_coords.min.x, v.bounds.min.x)

ExceedsMaxY(v) == FGt(v.pixel_coords.max.y, v.bounds.max.y)

ExceedsMinY(v) == FLt(v.pixel_coords.min.y, v.bounds.min.y)

OnlyMaxX(v) ==
    ExceedsMaxX(v) /\ ~ExceedsMinX(v) /\ ~ExceedsMaxY(v) /\ ~ExceedsMinY(v)

OnlyMinX(v) ==
    ~ExceedsMaxX(v) /\ ExceedsMinX(v) /\ ~ExceedsMaxY(v) /\ ~ExceedsMinY(v)

OnlyMaxY(v) ==
    ~ExceedsMaxX(v) /\ ~ExceedsMinX(v) /\ ExceedsMaxY(v) /\ ~ExceedsMinY(v)

OnlyMinY(v) ==
    ~ExceedsMaxX(v) /\ ~ExceedsMinX(v) /\ ~ExceedsMaxY(v) /\ ExceedsMinY(v)

Within(v) ==
    ~ExceedsMaxX(v) /\ ~ExceedsMinX(v) /\ ~ExceedsMaxY(v) /\ ~ExceedsMinY(v)

\* extents of the encoded quad and of its UV rectangle
OutWidth(o) == FSub(o.right_bottom[1], o.left_top[1])

OutHeight(o) == FSub(o.left_top[2], o.right_bottom[2])

OutTexWidth(o) == FSub(o.tex_right_bottom[1], o.tex_left_top[1])

OutTexHeight(o) == FSub(o.tex_left_top[2], o.tex_right_bottom[2])

\* new_uv / old_uv == clamped / original, in f32
RatioEq(new_uv, old_uv, clamped, original) ==
    FEq(FDiv(new_uv, old_uv), FDiv(clamped, original))

\* 2^-21
Tolerance == Num(1, 8388608, -44)

\* new_uv / old_uv and clamped / original are equal or differ by at most
\* 2^-21 * (|clamped / original| + |coord| / old_uv), coord the UV
\* coordinate the clamp has set
RatioClose(new_uv, old_uv, clamped, original, coord) ==
    LET uv_ratio == FDiv(new_uv, old_uv)
        px_ratio == FDiv(clamped, original)
    IN  \/ FEq(uv_ratio, px_ratio)
        \/ FLe(FAbs(FSub(uv_ratio, px_ratio)),
               FMul(Tolerance,
                    FAdd(FAbs(px_ratio), FDiv(FAbs(coord), old_uv))))

\* pixel_coords (0,0)-(100,50), bounds (0,0)-(60,50), tex_coords (0,0)-(1,1)
Scenario(v) ==
    /\ v.pixel_coords = Rect(F(0), F(0), F(100), F(50))
    /\ v.bounds = Rect(F(0), F(0), F(60), F(50))
    /\ v.tex_coords = Rect(F(0), F(0), F(1), F(1))

\* in the scenario right_bottom.x is 60 and tex_right_bottom.x is 0.6f32
ScenarioResult(v, o) ==
    Scenario(v) =>
        /\ o.right_bottom[1] = F(60)
        /\ o.tex_right_bottom[1] = FDiv(F(6), F(10))

\* the UV coordinates a clamp of one side leaves alone
OtherUVsKept(v, o, side) ==
    /\ side # "max_x" => o.tex_right_bottom[1] = v.tex_coords.max.x
    /\ side # "min_x" => o.tex_left_top[1] = v.tex_coords.min.x
    /\ side # "max_y" => o.tex_left_top[2] = v.tex_coords.max.y
    /\ side # "min_y" => o.tex_right_bottom[2] = v.tex_coords.min.y

\* C7 (as claimed): when pixel_coords exceeds bounds on exactly one side, the
\* other UV coordinates are unchanged and the clamped UV extent satisfies
\* new_uv_extent / old_uv_extent == clamped_extent / original_extent.
C7_RatioExact ==
    fv.pc = "done" =>
        LET v == fv.v
            o == fv.out
        IN  /\ OnlyMaxX(v) =>
                /\ OtherUVsKept(v, o, "max_x")
                /\ RatioEq(OutTexWidth(o), Width(v.tex_coords),
                           OutWidth(o), Width(v.pixel_coords))
            /\ OnlyMinX(v) =>
                /\ OtherUVsKept(v, o, "min_x")
                /\ RatioEq(OutTexWidth(o), Width(v.tex_coords),
                           OutWidth(o), Width(v.pixel_coords))
            /\ OnlyMaxY(v) =>
                /\ OtherUVsKept(v, o, "max_y")
                /\ RatioEq(OutTexHeight(o), Height(v.tex_coords),
                           OutHeight(o), Height(v.pixel_coords))
            /\ OnlyMinY(v) =>
                /\ OtherUVsKept(v, o, "min_y")
                /\ RatioEq(OutTexHeight(o), Height(v.tex_coords),
                           OutHeight(o), Height(v.pixel_coords))
            /\ ScenarioResult(v, o)

\* C7 (amended): when pixel_coords exceeds bounds on exactly one side, the
\* other UV coordinates are unchanged, the clamped side of the quad sits on
\* the bounds edge, and new_uv_extent / old_uv_extent equals
\* clamped_extent / original_extent up to f32 rounding (RatioClose); in the
\* scenario the results are exactly 60 and 0.6f32.
C7_RatioWithinTolerance ==
    fv.pc = "done" =>
        LET v == fv.v
            o == fv.out
        IN  /\ OnlyMaxX(v) =>
                /\ OtherUVsKept(v, o, "max_x")
                /\ o.right_bottom[1] = v.bounds.max.x
                /\ RatioClose(OutTexWidth(o), Width(v.tex_coords),
                              OutWidth(o), Width(v.pixel_coords),
                              o.tex_right_bottom[1])
            /\ OnlyMinX(v) =>
                /\ OtherUVsKept(v, o, "min_x")
                /\ o.left_top[1] = v.bounds.min.x
                /\ RatioClose(OutTexWidth(o), Width(v.tex_coords),
                              OutWidth(o), Width(v.pixel_coords),
                              o.tex_left_top[1])
            /\ OnlyMaxY(v) =>
                /\ OtherUVsKept(v, o, "max_y")
                /\ o.left_top[2] = v.bounds.max.y
                /\ RatioClose(OutTexHeight(o), Height(v.tex_coords),
                              OutHeight(o), Height(v.pixel_coords),
                              o.tex_left_top[2])
            /\ OnlyMinY(v) =>
                /\ OtherUVsKept(v, o, "min_y")
                /\ o.right_bottom[2] = v.bounds.min.y
                /\ RatioClose(OutTexHeight(o), Height(v.tex_coords),
                              OutHeight(o), Height(v.pixel_coords),
                              o.tex_right_bottom[2])
            /\ ScenarioResult(v, o)

\* a glyph 70 wide cut to 60 whose atlas region starts at u = 1/2: the two
\* ratios differ in the last place
C7_Witness ==
    /\ fv.pc = "done"
    /\ OnlyMaxX(fv.v)
    /\ ~FEq(fv.v.tex_coords.min.x, F(0))
    /\ FGt(OutWidth(fv.out), F(0))
    /\ ~RatioEq(OutTexWidth(fv.out), Width(fv.v.tex_coords),
                OutWidth(fv.out), Width(fv.v.pixel_coords))

\* C8: when pixel_coords lies within bounds on all four sides the Instance
\* holds the input rectangles verbatim under the flip mapping, the depth and
\* the colour.
C8_WithinBoundsVerbatim ==
    (fv.pc = "done" /\ Within(fv.v)) =>
        LET v == fv.v
            o == fv.out
        IN  /\ o.left_top = <<v.pixel_coords.min.x, v.pixel_coords.max.y, v.extra.z>>
            /\ o.right_bottom = <<v.pixel_coords.max.x, v.pixel_coords.min.y>>
            /\ o.tex_left_top = <<v.tex_coords.min.x, v.tex_coords.max.y>>
            /\ o.tex_right_bottom = <<v.tex_coords.max.x, v.tex_coords.min.y>>
            /\ o.color = v.extra.color
            /\ \A i \in 1..4 : ~fv.clamps[i].taken

\* a glyph of positive size that touches the bounds edge without crossing it
C8_Witness ==
    /\ fv.pc = "done"
    /\ Within(fv.v)
    /\ fv.v.pixel_coords.max.x = fv.v.bounds.max.x
    /\ FGt(Width(fv.v.pixel_coords), F(0))
    /\ FGt(Height(fv.v.pixel_coords), F(0))

FullyOutside(v) ==
    \/ FGt(v.pixel_coords.min.x, v.bounds.max.x)
    \/ FLt(v.pixel_coords.max.x, v.bounds.min.x)
    \/ FGt(v.pixel_coords.min.y, v.bounds.max.y)
    \/ FLt(v.pixel_coords.max.y, v.bounds.min.y)

ZeroArea(o) == IsZero(OutWidth(o)) \/ IsZero(OutHeight(o))

\* C9 (as claimed): for a glyph fully outside bounds on one axis the quad
\* has zero area, every clamp taken divides by an extent > 0, and no clamp
\* leaves a negative extent.
C9_DegenerateIsZeroArea ==
    (fv.pc = "done" /\ FullyOutside(fv.v)) =>
        /\ ZeroArea(fv.out)
        /\ \A i \in 1..4 :
               fv.clamps[i].taken =>
                   /\ FGt(fv.clamps[i].divisor, F(0))
                   /\ ~FLt(fv.clamps[i].extent, F(0))

====
